---- MODULE Spec2Model ----
(***************************************************************************)
(* CanvasRecorder (src/src/CanvasRecorder.ts, lines 58-510): one recording *)
(* session object, the browser objects it drives (MediaRecorder, the       *)
(* captured MediaStream, requestAnimationFrame callbacks, the watermark    *)
(* Image) and the promises its stop() hands out.                           *)
(*                                                                         *)
(* Browser behaviour assumed (MediaStream Recording, HTML):                *)
(*  - MediaRecorder.stop() on an inactive recorder returns without effect; *)
(*    on a recording one it sets state to "inactive" at once and queues    *)
(*    one task that fires dataavailable and then stop.                     *)
(*  - an <img> fires load or error at most once per load; handlers set     *)
(*    after the event has fired are never called.                          *)
(*  - a promise settles once; later resolve/reject calls are ignored.      *)
(***************************************************************************)
EXTENDS Naturals, Integers, Sequences, FiniteSets, TLC

\* ---------------------------------------------------------------- bounds
MaxRec    == 2   \* captureStream() calls that return a stream
MaxStops  == 2   \* stop() calls
MaxChunks == 2   \* length of recordedChunks
MaxRaf    == 3   \* requestAnimationFrame handles issued
MaxClock  == 2   \* Date.now() values 0..MaxClock
MaxCalls   == 3  \* loadFFmpeg()/convertToMP4() calls
MaxWorkers == 2  \* Workers created
MaxOutbox  == 2  \* messages posted by the Worker and not yet dispatched
MaxPasses  == 2  \* drawWatermark passes between two resizes
MaxResizes == 1  \* updateCanvasSize() calls
MaxTime    == 4  \* the demo page's Date.now(), in steps of 500 ms
MaxConv    == 2  \* convertToMP4 calls the demo page has in flight

\* null for the handle fields (mediaRecorder, animationFrameId, onstop)
NULL == 0

SrcW == 2
SrcH == 1

VARIABLES
  cfg,                  \* this.options.watermark, as given to the constructor
  watermarkCanvas,      \* [alloc, w, h]; alloc = FALSE is null
  wmContent,            \* layers on the watermark canvas after the last pass
  watermarkImage,       \* TRUE iff this.watermarkImage is not null
  watermarkImageLoaded,
  mediaRecorder,        \* NULL or the index of the MediaRecorder held
  recordedChunks,       \* sequence of chunks; a chunk is named by its recorder
  startTime,
  animationFrameId,     \* NULL or a requestAnimationFrame handle
  recs,                 \* the MediaRecorder/MediaStream objects created so far
  nRec,                 \* number of streams captured so far
  rafPending,           \* handles whose callback is still scheduled
  nextRaf,              \* next handle requestAnimationFrame returns
  promises,             \* the promises returned by stop(), in call order
  imgState,             \* the watermark Image: none / loading / ok / broken
  imgHandlers,          \* handlers installed on it: none / both / onload
  loadState,            \* promise of loadWatermarkImage: none/pending/resolved
  warnings,             \* number of console.warn calls
  clock,                \* Date.now()
  phase,                \* history: fresh / recording / stopping / stopped / failed
  srcCanvas,            \* the source canvas: [w, h, owned], with the history
                        \* of resizes by the page and updateCanvasSize calls
  supported,            \* the types MediaRecorder.isTypeSupported accepts
  lastPass,             \* history: who made the last drawWatermark pass, when
  \* VideoConverter (src/src/VideoConverter.ts) and its worker
  worker,               \* this.worker: NULL or the index of the Worker held
  nWorkers,             \* Workers created so far
  terminated,           \* Workers on which terminate() was called
  listeners,            \* <<w, c>>: handleMessage of call c is registered on w
  calls,                \* the loadFFmpeg/convertToMP4 calls, in call order
  inbox,                \* requests posted to the live Worker, not yet received
  handlers,             \* onmessage invocations of the Worker still running
  ffmpeg,               \* the Worker's global: TRUE iff not null
  engine,               \* the FFmpeg core: none / loading / loaded / failed
  outbox,               \* messages posted by the Worker, not yet dispatched
  \* one compositing pass in detail (drawWatermark and the draw* methods)
  dIn,                  \* the watermark, the canvases and the bitmap drawn
  dOps,                 \* the draw calls of the last pass, in call order
  dTarget,              \* what each kind of target pixel holds
  dCtx,                 \* the 2D context state left by the last pass
  dPasses,              \* passes made so far
  \* the demo page (src/unnamed/part_001)
  page                  \* its globals, buttons, intervals and conversions

recVars == <<cfg, watermarkCanvas, wmContent, watermarkImage,
             watermarkImageLoaded, mediaRecorder, recordedChunks, startTime,
             animationFrameId, recs, nRec, rafPending, nextRaf, promises,
             imgState, imgHandlers, loadState, warnings, clock, phase,
             srcCanvas, supported, lastPass>>

convVars == <<worker, nWorkers, terminated, listeners, calls, inbox, handlers,
              ffmpeg, engine, outbox>>

drawVars == <<dIn, dOps, dTarget, dCtx, dPasses>>

demoVars == <<page>>

vars == <<recVars, convVars, drawVars, demoVars>>

\* a VideoConverter as constructed: no Worker yet
NewConverter ==
  /\ worker = NULL
  /\ nWorkers = 0
  /\ terminated = {}
  /\ listeners = {}
  /\ calls = <<>>
  /\ inbox = <<>>
  /\ handlers = {}
  /\ ffmpeg = FALSE
  /\ engine = "none"
  /\ outbox = <<>>

\* the demo page before DOMContentLoaded
NoPage == page = <<>>

\* no compositing pass under study
NoDrawing ==
  /\ dIn = <<>>
  /\ dOps = <<>>
  /\ dTarget = <<>>
  /\ dCtx = <<>>
  /\ dPasses = 0

\* the fields of the session object itself
sessionVars == <<watermarkCanvas, wmContent, watermarkImage,
                 watermarkImageLoaded, mediaRecorder, recordedChunks,
                 startTime, animationFrameId>>

\* ------------------------------------------------------------ configuration
ImageSources == {"none", "url", "elemOk", "elemLoading", "elemBroken", "canvas"}

\* options.watermark: wm = FALSE is "no watermark given"
WatermarkOptions ==
  {[wm |-> FALSE, text |-> FALSE, bars |-> 0, image |-> "none"]} \cup
  [wm : {TRUE}, text : BOOLEAN, bars : 0..1, image : ImageSources]

NoRec == [state |-> "none", tracks |-> "none", onstop |-> NULL,
          stopQueued |-> FALSE, finalized |-> FALSE, target |-> "none",
          frame |-> <<>>, mimeType |-> "none", startedAt |-> 0,
          gotData |-> FALSE, nData |-> 0]

\* ------------------------------------------------------- watermark set-up
\* loadWatermarkImage, up to the point where it returns or suspends
loadWatermarkImage(src) ==
  CASE src = "elemOk" ->
         [image |-> TRUE, loaded |-> TRUE, img |-> "ok",
          handlers |-> "none", load |-> "resolved"]
    [] src = "elemLoading" ->
         [image |-> FALSE, loaded |-> FALSE, img |-> "loading",
          handlers |-> "both", load |-> "pending"]
    [] src = "elemBroken" ->
         [image |-> FALSE, loaded |-> FALSE, img |-> "broken",
          handlers |-> "both", load |-> "pending"]
    [] src = "canvas" ->
         [image |-> FALSE, loaded |-> FALSE, img |-> "loading",
          handlers |-> "onload", load |-> "resolved"]
    [] src = "url" ->
         [image |-> FALSE, loaded |-> FALSE, img |-> "loading",
          handlers |-> "both", load |-> "pending"]
    [] OTHER ->
         [image |-> FALSE, loaded |-> FALSE, img |-> "none",
          handlers |-> "none", load |-> "none"]

\* setupWatermark, as called (not awaited) by the constructor
setupWatermark(c) ==
  IF ~c.wm
    THEN [canvas |-> [alloc |-> FALSE, w |-> 0, h |-> 0],
          ld |-> loadWatermarkImage("none")]
    ELSE [canvas |-> [alloc |-> TRUE, w |-> SrcW, h |-> SrcH],
          ld |-> loadWatermarkImage(c.image)]

\* watermark options without an image: the recording life cycle
LifecycleOptions == {c \in WatermarkOptions : c.image = "none" /\ (c.text <=> c.wm) /\ (c.bars = 1 <=> c.wm)}

\* watermark options with every image source variant
ImageOptions == {c \in WatermarkOptions : c.wm /\ c.image # "none"}

\* the state the constructor leaves, for a watermark option out of opts
NewRecorder(opts) ==
  /\ cfg \in opts
  /\ LET s == setupWatermark(cfg) IN
       /\ watermarkCanvas = s.canvas
       /\ watermarkImage = s.ld.image
       /\ watermarkImageLoaded = s.ld.loaded
       /\ imgState = s.ld.img
       /\ imgHandlers = s.ld.handlers
       /\ loadState = s.ld.load
  /\ wmContent = <<>>
  /\ mediaRecorder = NULL
  /\ recordedChunks = <<>>
  /\ startTime = 0
  /\ animationFrameId = NULL
  /\ recs = [r \in 1..MaxRec |-> NoRec]
  /\ nRec = 0
  /\ rafPending = {}
  /\ nextRaf = 1
  /\ promises = <<>>
  /\ warnings = 0
  /\ clock = 0
  /\ phase = "fresh"
  /\ lastPass = [by |-> "none", phase |-> "fresh"]

MimeTypes == {"video/webm;codecs=vp9", "video/webm;codecs=vp8", "video/webm",
              "video/mp4"}

\* the source canvas as the constructor receives it: options.canvas (owned)
\* or options.externalCanvas
SourceCanvas(owned) ==
  [w |-> SrcW, h |-> SrcH, owned |-> owned, resizes |-> 0, updates |-> 0,
   req |-> <<>>]

\* options.canvas in a browser that supports every listed type
DefaultEnv ==
  /\ srcCanvas = SourceCanvas(TRUE)
  /\ supported = MimeTypes

Constructed(opts) ==
  /\ NewRecorder(opts)
  /\ DefaultEnv
  /\ NewConverter
  /\ NoPage
  /\ NoDrawing

Init == Constructed(LifecycleOptions)

InitImage == Constructed(ImageOptions)

\* ------------------------------------------------------------- compositing
BarLayers(n) == IF n = 0 THEN <<>> ELSE <<"bar">>

\* the layers one drawWatermark pass leaves on the watermark canvas
drawWatermark(canvas, c, loaded, image, old) ==
  IF ~canvas.alloc \/ ~c.wm THEN old
  ELSE <<"source">>
       \o BarLayers(c.bars)
       \o (IF c.text THEN <<"text">> ELSE <<>>)
       \o (IF c.image # "none" /\ loaded /\ image THEN <<"image">> ELSE <<>>)

\* isRecording() as it would be if holding a recorder counted as recording
isRecordingAny ==
  mediaRecorder # NULL

\* lines 494-496
isRecording ==
  mediaRecorder # NULL /\ recs[mediaRecorder].state = "recording"

\* --------------------------------------------------------------- start()
StartOutcomes == {"ok", "captureThrows", "ctorThrows", "startThrows"}

\* the MediaStream/MediaRecorder pair a start() with outcome o leaves behind;
\* frame is what the captured canvas held when captureStream was called,
\* startedAt, gotData and nData record the cycle: its start time, whether a
\* non-empty chunk has been delivered, and how many
NewRec(o, target, frame, mimeType) ==
  [state  |-> IF o = "ok" THEN "recording"
              ELSE IF o = "startThrows" THEN "inactive" ELSE "none",
   tracks |-> "live", onstop |-> NULL, stopQueued |-> FALSE,
   finalized |-> FALSE, target |-> target, frame |-> frame,
   mimeType |-> mimeType, startedAt |-> clock, gotData |-> FALSE,
   nData |-> 0]

\* line 387 with the source canvas always recorded
canvasToRecordSource(canvas) == "src"

\* line 387: this.watermarkCanvas || sourceCanvas
canvasToRecord(canvas) == IF canvas.alloc THEN "wm" ELSE "src"

MimeList == <<"video/webm;codecs=vp9", "video/webm;codecs=vp8", "video/webm",
              "video/mp4">>

RECURSIVE firstSupported(_, _)
firstSupported(sup, i) ==
  IF i > Len(MimeList) THEN "video/webm"
  ELSE IF MimeList[i] \in sup THEN MimeList[i]
  ELSE firstSupported(sup, i + 1)

\* lines 443-459
getSupportedMimeType(sup) == firstSupported(sup, 1)

\* start() never takes its "await this.setupWatermark()" branch: see
\* SetupDoneAtConstruction below, so the body runs to completion in the call.
Start(o) ==
  /\ ~(cfg.wm /\ ~watermarkCanvas.alloc)
  /\ o # "captureThrows" => nRec < MaxRec
  /\ (o = "ok" /\ watermarkCanvas.alloc) => nextRaf <= MaxRaf
  \* new MediaRecorder throws NotSupportedError for an unsupported mimeType
  /\ o \in {"ok", "startThrows"} => getSupportedMimeType(supported) \in supported
  /\ recordedChunks' = <<>>
  /\ startTime' = clock
  /\ LET r      == nRec + 1
         target == canvasToRecord(watermarkCanvas)
         drawn  == drawWatermark(watermarkCanvas, cfg, watermarkImageLoaded,
                                 watermarkImage, wmContent)
     IN
     /\ wmContent' = drawn
     /\ IF o = "captureThrows"
          THEN UNCHANGED <<recs, nRec, mediaRecorder>>
          ELSE /\ recs' = [recs EXCEPT ![r] =
                            NewRec(o, target, drawn,
                                   getSupportedMimeType(supported))]
               /\ nRec' = r
               /\ mediaRecorder' =
                    IF o = "ctorThrows" THEN mediaRecorder ELSE r
     /\ IF o = "ok" /\ watermarkCanvas.alloc
          THEN \* updateWatermarkLoop(): isRecording() holds here
               /\ animationFrameId' = nextRaf
               /\ rafPending' = rafPending \cup {nextRaf}
               /\ nextRaf' = nextRaf + 1
          ELSE UNCHANGED <<animationFrameId, rafPending, nextRaf>>
  /\ phase' = IF o = "ok" THEN "recording"
              ELSE IF phase = "stopped" THEN "failed" ELSE phase
  /\ lastPass' = IF watermarkCanvas.alloc
                   THEN [by |-> "start", phase |-> phase']
                   ELSE lastPass
  /\ UNCHANGED <<cfg, watermarkCanvas, watermarkImage, watermarkImageLoaded,
                 promises, imgState, imgHandlers, loadState, warnings, clock>>
  /\ UNCHANGED <<srcCanvas, supported>>
  /\ UNCHANGED <<convVars, drawVars, demoVars>>

\* ------------------------------------------------- updateWatermarkLoop()
\* the requestAnimationFrame callback with handle id runs
Tick(id) ==
  /\ id \in rafPending
  /\ IF ~isRecording
       THEN /\ animationFrameId' = NULL
            /\ rafPending' = rafPending \ {id}
            /\ UNCHANGED <<wmContent, nextRaf, lastPass>>
       ELSE /\ nextRaf <= MaxRaf
            /\ wmContent' = drawWatermark(watermarkCanvas, cfg,
                              watermarkImageLoaded, watermarkImage, wmContent)
            /\ animationFrameId' = nextRaf
            /\ rafPending' = (rafPending \ {id}) \cup {nextRaf}
            /\ nextRaf' = nextRaf + 1
            /\ lastPass' = [by |-> "tick", phase |-> phase]
  /\ UNCHANGED <<cfg, watermarkCanvas, watermarkImage, watermarkImageLoaded,
                 mediaRecorder, recordedChunks, startTime, recs, nRec,
                 promises, imgState, imgHandlers, loadState, warnings, clock,
                 phase>>
  /\ UNCHANGED <<srcCanvas, supported>>
  /\ UNCHANGED <<convVars, drawVars, demoVars>>

\* ------------------------------------------------------- ondataavailable
\* event.data.size > 0 is pushed, an empty blob is dropped
pushChunk(chunks, r, size) ==
  IF size > 0 THEN Append(chunks, r) ELSE chunks

\* the 100 ms timeslice of recorder r elapses
DataAvailable(r, size) ==
  /\ recs[r].state = "recording"
  /\ size > 0 => Len(recordedChunks) < MaxChunks
  /\ size > 0 => recs[r].nData < MaxChunks
  /\ recordedChunks' = pushChunk(recordedChunks, r, size)
  /\ recs' = [recs EXCEPT ![r].gotData = @ \/ size > 0,
                          ![r].nData = IF size > 0 THEN @ + 1 ELSE @]
  /\ UNCHANGED <<cfg, watermarkCanvas, wmContent, watermarkImage,
                 watermarkImageLoaded, mediaRecorder, startTime,
                 animationFrameId, nRec, rafPending, nextRaf, promises,
                 imgState, imgHandlers, loadState, warnings, clock, phase>>
  /\ UNCHANGED <<srcCanvas, supported, lastPass>>
  /\ UNCHANGED <<convVars, drawVars, demoVars>>

\* ---------------------------------------------------------------- stop()
\* phase, cancelled and loopAtStop record the call: the phase it was made in,
\* the loop handle it cancelled, and the handle still stored at the moment it
\* called mediaRecorder.stop()
NewPromise(state, err, rec, cancelled, loopAtStop) ==
  [state |-> state, err |-> err, phase |-> phase, rec |-> rec,
   cancelled |-> cancelled, loopAtStop |-> loopAtStop,
   blob |-> <<>>, type |-> "none", duration |-> 0]

\* stop() as it would be with the recorder stopped first and the loop
\* cancelled afterwards
stopLoopLate(id, raf) ==
  [atStop |-> [id |-> id, raf |-> raf],
   final  |-> [id |-> NULL, raf |-> IF id # NULL THEN raf \ {id} ELSE raf]]

\* lines 468-472 and what mediaRecorder.stop() on line 486 then finds:
\* the stored handle is cancelled and cleared before the recorder is stopped
stopLoop(id, raf) ==
  LET cleared == [id  |-> NULL,
                  raf |-> IF id # NULL THEN raf \ {id} ELSE raf]
  IN  [atStop |-> cleared, final |-> cleared]

Stop ==
  /\ Len(promises) < MaxStops
  /\ IF mediaRecorder = NULL
       THEN /\ promises' = Append(promises,
                 NewPromise("rejected", "NoActiveRecording", NULL, NULL, NULL))
            /\ UNCHANGED <<animationFrameId, rafPending, recs, phase>>
       ELSE LET mr == mediaRecorder
                p  == Len(promises) + 1
                lp == stopLoop(animationFrameId, rafPending)
                wasRecording == recs[mr].state = "recording"
            IN
            /\ animationFrameId' = lp.final.id
            /\ rafPending' = lp.final.raf
            /\ recs' = [recs EXCEPT
                 ![mr].onstop = p,
                 ![mr].state = "inactive",
                 ![mr].stopQueued = recs[mr].stopQueued \/ wasRecording,
                 ![mr].tracks = "stopped"]
            /\ promises' = Append(promises,
                 NewPromise("pending", "none", mr, animationFrameId,
                            lp.atStop.id))
            /\ phase' = IF wasRecording THEN "stopping" ELSE phase
  /\ UNCHANGED <<cfg, watermarkCanvas, wmContent, watermarkImage,
                 watermarkImageLoaded, mediaRecorder, recordedChunks,
                 startTime, nRec, nextRaf, imgState, imgHandlers, loadState,
                 warnings, clock>>
  /\ UNCHANGED <<srcCanvas, supported, lastPass>>
  /\ UNCHANGED <<convVars, drawVars, demoVars>>

\* onstop as it would be if each stop() call added a listener instead of
\* replacing the handler: every pending call on recorder r is resolved
onstopAll(ps, p, chunks, r) ==
  [q \in 1..Len(ps) |->
     IF ps[q].rec = r /\ ps[q].state = "pending"
       THEN [ps[q] EXCEPT !.state = "resolved", !.blob = chunks,
                          !.type = "video/webm",
                          !.duration = clock - startTime]
       ELSE ps[q]]

\* the onstop handler installed by stop() call p: duration, blob, resolve
onstop(ps, p, chunks, r) ==
  [q \in 1..Len(ps) |->
     IF q = p /\ ps[q].state = "pending"
       THEN [ps[q] EXCEPT !.state = "resolved", !.rec = r, !.blob = chunks,
                          !.type = "video/webm",
                          !.duration = clock - startTime]
       ELSE ps[q]]

\* the task queued by mediaRecorder.stop(): dataavailable, then stop
Finalize(r, size) ==
  /\ recs[r].stopQueued
  /\ size > 0 => Len(recordedChunks) < MaxChunks
  /\ size > 0 => recs[r].nData < MaxChunks
  /\ recordedChunks' = pushChunk(recordedChunks, r, size)
  /\ promises' = onstop(promises, recs[r].onstop, recordedChunks', r)
  /\ recs' = [recs EXCEPT ![r].stopQueued = FALSE, ![r].finalized = TRUE,
                          ![r].gotData = @ \/ size > 0,
                          ![r].nData = IF size > 0 THEN @ + 1 ELSE @]
  /\ phase' = IF r = mediaRecorder /\ phase = "stopping"
                THEN "stopped" ELSE phase
  /\ UNCHANGED <<cfg, watermarkCanvas, wmContent, watermarkImage,
                 watermarkImageLoaded, mediaRecorder, startTime,
                 animationFrameId, nRec, rafPending, nextRaf, imgState,
                 imgHandlers, loadState, warnings, clock>>
  /\ UNCHANGED <<srcCanvas, supported, lastPass>>
  /\ UNCHANGED <<convVars, drawVars, demoVars>>

\* ------------------------------------------------- watermark image events
\* the Image fires load
ImgLoaded ==
  /\ imgState = "loading"
  /\ imgState' = "ok"
  /\ IF imgHandlers \in {"both", "onload"}
       THEN watermarkImage' = TRUE /\ watermarkImageLoaded' = TRUE
       ELSE UNCHANGED <<watermarkImage, watermarkImageLoaded>>
  /\ loadState' = IF imgHandlers = "both" THEN "resolved" ELSE loadState
  /\ UNCHANGED <<cfg, watermarkCanvas, wmContent, mediaRecorder,
                 recordedChunks, startTime, animationFrameId, recs, nRec,
                 rafPending, nextRaf, promises, imgHandlers, warnings, clock,
                 phase>>
  /\ UNCHANGED <<srcCanvas, supported, lastPass>>
  /\ UNCHANGED <<convVars, drawVars, demoVars>>

\* the Image fires error
ImgFailed ==
  /\ imgState = "loading"
  /\ imgState' = "broken"
  /\ IF imgHandlers = "both"
       THEN warnings' = warnings + 1 /\ loadState' = "resolved"
       ELSE UNCHANGED <<warnings, loadState>>
  /\ UNCHANGED <<cfg, watermarkCanvas, wmContent, watermarkImage,
                 watermarkImageLoaded, mediaRecorder, recordedChunks,
                 startTime, animationFrameId, recs, nRec, rafPending, nextRaf,
                 promises, imgHandlers, clock, phase>>
  /\ UNCHANGED <<srcCanvas, supported, lastPass>>
  /\ UNCHANGED <<convVars, drawVars, demoVars>>

\* Date.now() advances
ClockTick ==
  /\ clock < MaxClock
  /\ clock' = clock + 1
  /\ UNCHANGED <<cfg, watermarkCanvas, wmContent, watermarkImage,
                 watermarkImageLoaded, mediaRecorder, recordedChunks,
                 startTime, animationFrameId, recs, nRec, rafPending, nextRaf,
                 promises, imgState, imgHandlers, loadState, warnings, phase>>
  /\ UNCHANGED <<srcCanvas, supported, lastPass>>
  /\ UNCHANGED <<convVars, drawVars, demoVars>>

\* the recording life cycle, with and without a watermark
Next ==
  \/ \E o \in StartOutcomes : Start(o)
  \/ Stop
  \/ \E r \in 1..MaxRec, size \in 0..1 : Finalize(r, size)
  \/ \E r \in 1..MaxRec, size \in 0..1 : DataAvailable(r, size)
  \/ \E id \in 1..MaxRaf : Tick(id)
  \/ ClockTick

Spec == Init /\ [][Next]_vars

\* the task queued by mediaRecorder.stop() is run by the event loop: a
\* recorder that was stopped fires its stop event
StopEventFires(r) == WF_vars(\E size \in 0..1 : Finalize(r, size))

SpecLive == Init /\ [][Next]_vars /\ \A r \in 1..MaxRec : StopEventFires(r)

\* a session with an image watermark: the image events against the session
NextImage ==
  \/ Start("ok")
  \/ Stop
  \/ \E r \in 1..MaxRec : Finalize(r, 0)
  \/ \E id \in 1..MaxRaf : Tick(id)
  \/ ImgLoaded
  \/ ImgFailed

SpecImage == InitImage /\ [][NextImage]_vars

\* ------------------------------------------------------ canvas sizes
CanvasSizes == {<<SrcW, SrcH>>, <<SrcW + 1, SrcH + 1>>}

\* the page sets width/height of the source canvas
ResizeSource(w, h) ==
  /\ srcCanvas.resizes < MaxResizes
  /\ <<w, h>> # <<srcCanvas.w, srcCanvas.h>>
  /\ srcCanvas' = [srcCanvas EXCEPT !.w = w, !.h = h, !.resizes = @ + 1]
  /\ UNCHANGED <<cfg, watermarkCanvas, wmContent, watermarkImage,
                 watermarkImageLoaded, mediaRecorder, recordedChunks,
                 startTime, animationFrameId, recs, nRec, rafPending, nextRaf,
                 promises, imgState, imgHandlers, loadState, warnings, clock,
                 phase, supported, lastPass>>
  /\ UNCHANGED <<convVars, drawVars, demoVars>>

\* lines 503-507 with the source resized whoever owns it
resizeSourceAlways(src, w, h) == [src EXCEPT !.w = w, !.h = h]

\* lines 503-507: only options.canvas is resized, an externalCanvas is not
resizeSource(src, w, h) ==
  IF src.owned THEN [src EXCEPT !.w = w, !.h = h] ELSE src

\* updateCanvasSize(width, height), lines 498-509; setting the size of a
\* canvas clears it
updateCanvasSize(w, h) ==
  /\ srcCanvas.updates < MaxResizes
  /\ watermarkCanvas' = IF watermarkCanvas.alloc
                          THEN [alloc |-> TRUE, w |-> w, h |-> h]
                          ELSE watermarkCanvas
  /\ wmContent' = IF watermarkCanvas.alloc THEN <<>> ELSE wmContent
  /\ srcCanvas' = [resizeSource(srcCanvas, w, h) EXCEPT
                     !.updates = @ + 1, !.req = <<w, h>>]
  /\ UNCHANGED <<cfg, watermarkImage, watermarkImageLoaded, mediaRecorder,
                 recordedChunks, startTime, animationFrameId, recs, nRec,
                 rafPending, nextRaf, promises, imgState, imgHandlers,
                 loadState, warnings, clock, phase, supported, lastPass>>
  /\ UNCHANGED <<convVars, drawVars, demoVars>>

\* a session on its own or on an external canvas
InitStart ==
  /\ NewRecorder(LifecycleOptions)
  /\ srcCanvas \in {SourceCanvas(o) : o \in BOOLEAN}
  /\ supported = MimeTypes
  /\ NewConverter
  /\ NoPage
  /\ NoDrawing

NextStart ==
  \/ Start("ok")
  \/ Stop
  \/ \E r \in 1..MaxRec : Finalize(r, 0)
  \/ \E id \in 1..MaxRaf : Tick(id)
  \/ \E sz \in CanvasSizes : ResizeSource(sz[1], sz[2])
  \/ \E sz \in CanvasSizes : updateCanvasSize(sz[1], sz[2])

SpecStart == InitStart /\ [][NextStart]_vars

\* a session in a browser that supports any subset of the listed types
InitMime ==
  /\ NewRecorder(LifecycleOptions)
  /\ srcCanvas = SourceCanvas(TRUE)
  /\ supported \in SUBSET MimeTypes
  /\ NewConverter
  /\ NoPage
  /\ NoDrawing

NextMime ==
  \/ \E o \in {"ok", "ctorThrows"} : Start(o)
  \/ Stop
  \/ \E r \in 1..MaxRec : Finalize(r, 0)
  \/ \E id \in 1..MaxRaf : Tick(id)

SpecMime == InitMime /\ [][NextMime]_vars

\* ================================================== VideoConverter
\* src/src/VideoConverter.ts and the worker script (src/unnamed/part_002,
\* lines 103-209).  Worker.terminate() stops the script at once and drops
\* the messages it has posted that are not yet dispatched; a new Worker starts
\* with fresh globals.  Messages carry no call identity: the call field of a
\* request or message only records where it came from.

PlainOptions == {[wm |-> FALSE, text |-> FALSE, bars |-> 0, image |-> "none"]}

ConvInit == Constructed(PlainOptions)

\* initWorker(): the Worker to use and the number of Workers afterwards
initWorker ==
  IF worker = NULL
    THEN [w |-> nWorkers + 1, n |-> nWorkers + 1]
    ELSE [w |-> worker, n |-> nWorkers]

\* the promise of a call: progress is the value last handed to the
\* caller's onProgress, settles counts resolve/reject invocations, by is
\* the request whose message settled it, liveAtPost and pendingAtCall record
\* the call: whether its Worker was live, and the calls then pending;
\* terminals and lateProgress record what the Worker posts for the call's
\* request: its terminal messages, and a 'progress' posted after one
NewCall(kind, w) ==
  [kind |-> kind, state |-> "pending", worker |-> w, settles |-> 0,
   by |-> NULL, progress |-> "none", liveAtPost |-> w \notin terminated,
   pendingAtCall |-> {c \in 1..Len(calls) : calls[c].state = "pending"},
   terminals |-> 0, lateProgress |-> FALSE]

\* the body of the promise executor shared by loadFFmpeg and convertToMP4:
\* initWorker, addEventListener, postMessage
PostRequest(kind) ==
  /\ worker = NULL => nWorkers < MaxWorkers
  /\ LET iw == initWorker
         c  == Len(calls) + 1
     IN
     /\ worker' = iw.w
     /\ nWorkers' = iw.n
     /\ listeners' = listeners \cup {<<iw.w, c>>}
     /\ calls' = Append(calls, NewCall(kind, iw.w))
     /\ inbox' = IF iw.w \in terminated THEN inbox
                 ELSE Append(inbox, [type |-> kind, call |-> c])
  /\ UNCHANGED <<terminated, handlers, ffmpeg, engine, outbox>>
  /\ UNCHANGED <<recVars, drawVars, demoVars>>

LoadFFmpeg ==
  /\ Len(calls) < MaxCalls
  /\ PostRequest("load")

ConvertToMP4 ==
  /\ Len(calls) < MaxCalls
  /\ PostRequest("convert")

\* terminate() with the reference kept after worker.terminate()
terminateKeep(w) == w

\* what terminate() leaves in this.worker
terminate(w) == NULL

Terminate ==
  /\ worker # NULL
  /\ worker' = terminate(worker)
  /\ terminated' = terminated \cup {worker}
  /\ inbox' = <<>>
  /\ handlers' = {}
  /\ outbox' = <<>>
  /\ ffmpeg' = FALSE
  /\ engine' = "none"
  /\ UNCHANGED <<nWorkers, listeners, calls>>
  /\ UNCHANGED <<recVars, drawVars, demoVars>>

\* ---------------------------------------------------------- the worker
Msg(type, call, progress) ==
  [type |-> type, call |-> call, progress |-> progress]

\* the messages that end a request
Terminal == {"loaded", "complete", "error"}

\* the history of the requests after the Worker has posted msgs
RECURSIVE Posted(_, _)
Posted(cs, msgs) ==
  IF msgs = <<>> THEN cs
  ELSE LET m == Head(msgs) IN
       Posted([cs EXCEPT
                 ![m.call].terminals =
                    IF m.type \in Terminal THEN @ + 1 ELSE @,
                 ![m.call].lateProgress =
                    @ \/ (m.type = "progress" /\ cs[m.call].terminals > 0)],
              Tail(msgs))

\* the end of a conversion (part_002 159-169): progress 100, then complete
finishMessages(call) ==
  <<Msg("progress", call, "100"), Msg("complete", call, "none")>>

\* self.postMessage for each of msgs
Post(msgs) ==
  /\ outbox' = outbox \o msgs
  /\ calls' = Posted(calls, msgs)

\* self.onmessage up to its first suspension, for the request at the head of
\* the inbox; loadFFmpeg() of the worker returns at once when ffmpeg is set
Receive ==
  /\ inbox # <<>>
  /\ LET req == Head(inbox) IN
     /\ inbox' = Tail(inbox)
     /\ IF ~ffmpeg
          THEN /\ ffmpeg' = TRUE
               /\ engine' = "loading"
               /\ handlers' = handlers \cup
                    {[kind |-> req.type, call |-> req.call, pc |-> "loading"]}
               /\ UNCHANGED <<outbox, calls>>
          ELSE /\ Len(outbox) < MaxOutbox
               /\ UNCHANGED <<ffmpeg, engine>>
               /\ IF req.type = "load"
                    THEN /\ Post(<<Msg("loaded", req.call, "none")>>)
                         /\ UNCHANGED handlers
                    ELSE /\ Post(<<Msg("progress", req.call, "0")>>)
                         /\ handlers' = handlers \cup
                              {[kind |-> "convert", call |-> req.call,
                                pc |-> "write"]}
  /\ UNCHANGED <<worker, nWorkers, terminated, listeners>>
  /\ UNCHANGED <<recVars, drawVars, demoVars>>

\* ffmpeg.load() settles for the invocation h that started it
EngineLoad(h, ok) ==
  /\ h \in handlers
  /\ h.pc = "loading"
  /\ Len(outbox) < MaxOutbox
  /\ engine' = IF ok THEN "loaded" ELSE "failed"
  /\ IF ~ok
       THEN /\ Post(<<Msg("error", h.call, "none")>>)
            /\ handlers' = handlers \ {h}
       ELSE IF h.kind = "load"
         THEN /\ Post(<<Msg("loaded", h.call, "none")>>)
              /\ handlers' = handlers \ {h}
         ELSE /\ Post(<<Msg("progress", h.call, "0")>>)
              /\ handlers' = (handlers \ {h}) \cup {[h EXCEPT !.pc = "write"]}
  /\ UNCHANGED <<worker, nWorkers, terminated, listeners, inbox, ffmpeg>>
  /\ UNCHANGED <<recVars, drawVars, demoVars>>

\* a convert invocation resumes after writeFile, exec or readFile; writeFile
\* rejects when the core is not loaded, exec may fail
ConvertStep(h, ok) ==
  /\ h \in handlers
  /\ h.pc \in {"write", "exec", "read"}
  /\ Len(outbox) < (IF h.pc = "read" THEN MaxOutbox - 1 ELSE MaxOutbox)
  /\ LET fails == \/ (h.pc = "write" /\ engine # "loaded")
                  \/ (h.pc = "exec" /\ ~ok)
     IN
     IF fails
       THEN /\ Post(<<Msg("error", h.call, "none")>>)
            /\ handlers' = handlers \ {h}
       ELSE CASE h.pc = "write" ->
                   /\ Post(<<Msg("progress", h.call, "5")>>)
                   /\ handlers' =
                        (handlers \ {h}) \cup {[h EXCEPT !.pc = "exec"]}
              [] h.pc = "exec" ->
                   /\ Post(<<Msg("progress", h.call, "90")>>)
                   /\ handlers' =
                        (handlers \ {h}) \cup {[h EXCEPT !.pc = "read"]}
              [] h.pc = "read" ->
                   /\ Post(finishMessages(h.call))
                   /\ handlers' = handlers \ {h}
  /\ UNCHANGED <<worker, nWorkers, terminated, listeners, inbox, ffmpeg,
                 engine>>
  /\ UNCHANGED <<recVars, drawVars, demoVars>>

\* the core's 'progress' event during exec: time and message, no progress
EngineProgress(h) ==
  /\ h \in handlers
  /\ h.pc = "exec"
  /\ Len(outbox) < MaxOutbox
  /\ Post(<<Msg("progress", h.call, "undefined")>>)
  /\ UNCHANGED <<worker, nWorkers, terminated, listeners, inbox, handlers,
                 ffmpeg, engine>>
  /\ UNCHANGED <<recVars, drawVars, demoVars>>

\* ------------------------------------------------------- handleMessage
\* handleMessage with the listener left registered when an error arrives
handleMessageKeep(kind, type) ==
  IF (kind = "load" /\ type = "loaded") \/ (kind = "convert" /\ type = "complete")
    THEN [remove |-> TRUE, settle |-> "resolved", forward |-> FALSE]
  ELSE IF type = "error"
    THEN [remove |-> FALSE, settle |-> "rejected", forward |-> FALSE]
  ELSE [remove |-> FALSE, settle |-> "none",
        forward |-> kind = "convert" /\ type = "progress"]

\* handleMessage of a loadFFmpeg or convertToMP4 call for a message type
handleMessage(kind, type) ==
  IF (kind = "load" /\ type = "loaded") \/ (kind = "convert" /\ type = "complete")
    THEN [remove |-> TRUE, settle |-> "resolved", forward |-> FALSE]
  ELSE IF type = "error"
    THEN [remove |-> TRUE, settle |-> "rejected", forward |-> FALSE]
  ELSE [remove |-> FALSE, settle |-> "none",
        forward |-> kind = "convert" /\ type = "progress"]

\* the message at the head of the outbox is dispatched to every listener
\* registered on the Worker that posted it
Deliver ==
  /\ outbox # <<>>
  /\ worker # NULL
  /\ LET msg  == Head(outbox)
         told == {c \in 1..Len(calls) : <<worker, c>> \in listeners}
         hm(c) == handleMessage(calls[c].kind, msg.type)
     IN
     /\ outbox' = Tail(outbox)
     /\ listeners' = listeners \ {<<worker, c>> : c \in {d \in told : hm(d).remove}}
     /\ calls' = [c \in 1..Len(calls) |->
                    IF c \in told /\ hm(c).settle # "none"
                      THEN [calls[c] EXCEPT
                              !.settles = @ + 1,
                              !.state = IF @ = "pending" THEN hm(c).settle ELSE @,
                              !.by = IF calls[c].state = "pending"
                                       THEN msg.call ELSE @]
                    ELSE IF c \in told /\ hm(c).forward
                      \* onProgress({progress: progress, message})
                      THEN [calls[c] EXCEPT !.progress = msg.progress]
                    ELSE calls[c]]
  /\ UNCHANGED <<worker, nWorkers, terminated, inbox, handlers, ffmpeg, engine>>
  /\ UNCHANGED <<recVars, drawVars, demoVars>>

NextConv ==
  \/ LoadFFmpeg
  \/ ConvertToMP4
  \/ Terminate
  \/ Receive
  \/ \E h \in handlers, ok \in BOOLEAN : EngineLoad(h, ok)
  \/ \E h \in handlers, ok \in BOOLEAN : ConvertStep(h, ok)
  \/ \E h \in handlers : EngineProgress(h)
  \/ Deliver

SpecConv == ConvInit /\ [][NextConv]_vars

\* the event loops of the page and of the Worker run the tasks they hold:
\* requests are received, engine operations settle, messages are dispatched
ConvFair ==
  /\ WF_vars(Receive)
  /\ WF_vars(\E h \in handlers, ok \in BOOLEAN : EngineLoad(h, ok))
  /\ WF_vars(\E h \in handlers, ok \in BOOLEAN : ConvertStep(h, ok))
  /\ WF_vars(Deliver)

SpecConvLive == ConvInit /\ [][NextConv]_vars /\ ConvFair

\* ============================================ one compositing pass in detail
\* drawWatermark and the three drawing methods (CanvasRecorder.ts 164-372)
\* with their coordinates.  Lengths are exact rationals <<numerator,
\* denominator>>, denominator positive.  The target is observed at the
\* SamplePoints: a pixel is the paint written last by an opaque operation
\* followed by the translucent paints laid over it since (source-over).

Q(n) == <<n, 1>>
QAdd(a, b) == <<a[1] * b[2] + b[1] * a[2], a[2] * b[2]>>
QSub(a, b) == <<a[1] * b[2] - b[1] * a[2], a[2] * b[2]>>
QMul(a, b) == <<a[1] * b[1], a[2] * b[2]>>
QDiv(a, b) == <<a[1] * b[2], a[2] * b[1]>>
QEq(a, b) == a[1] * b[2] = b[1] * a[2]
QLe(a, b) == a[1] * b[2] <= b[1] * a[2]
QLt(a, b) == a[1] * b[2] < b[1] * a[2]

\* an optional property: given with value v, or undefined
Some(v) == [def |-> TRUE, v |-> v]
None == [def |-> FALSE, v |-> 0]
NoneQ == [def |-> FALSE, v |-> Q(0)]
NoneS == [def |-> FALSE, v |-> ""]
\* destructuring default: applies to undefined only
Default(o, d) == IF o.def THEN o.v ELSE d
\* if (n) on a number | undefined
Truthy(o) == o.def /\ o.v # 0

\* WatermarkPosition: a corner name, a pixel pair, or undefined
PosUndef == [def |-> FALSE, name |-> "undefined", x |-> 0, y |-> 0]
Corner(n) == [def |-> TRUE, name |-> n, x |-> 0, y |-> 0]
Pixel(x, y) == [def |-> TRUE, name |-> "xy", x |-> x, y |-> y]
Corners == {"top-left", "top-right", "bottom-left", "bottom-right"}
Positions == {PosUndef, Pixel(3, 7)} \cup {Corner(n) : n \in Corners}

DefaultTextColor == "rgba(255, 255, 255, 0.7)"
Translucent(color) == color = DefaultTextColor

SamplePoints ==
  {<<0, 0>>, <<5, 5>>, <<12, 15>>, <<25, 15>>, <<39, 29>>, <<45, 20>>}

OnCanvas(p, W, H) == p[1] < W /\ p[2] < H

Inside(p, x, y, w, h) ==
  /\ QLe(x, Q(p[1])) /\ QLt(Q(p[1]), QAdd(x, w))
  /\ QLe(y, Q(p[2])) /\ QLt(Q(p[2]), QAdd(y, h))

\* a canvas whose width or height has just been set; alpha: false
Clear(W, H) ==
  [p \in SamplePoints |-> IF OnCanvas(p, W, H) THEN <<"black">> ELSE <<"off">>]

NewCtx(W, H, n) ==
  [W |-> W, H |-> H, font |-> 10, textBaseline |-> "alphabetic",
   fillStyle |-> "#000000", globalAlpha |-> Q(1), resizes |-> n]

Op(op, i, x, y, w, h) ==
  [op |-> op, i |-> i, x |-> x, y |-> y, w |-> w, h |-> h]

\* one drawing operation: recorded, and composited source-over
Paint(st, o, alpha) ==
  [st EXCEPT
     !.ops = Append(@, o),
     !.target =
        [p \in SamplePoints |->
           IF OnCanvas(p, st.ctx.W, st.ctx.H) /\ Inside(p, o.x, o.y, o.w, o.h)
             THEN CASE alpha = "opaque" -> <<o.op>>
                    [] alpha = "translucent" -> Append(@[p], o.op)
                    [] OTHER -> @[p]
             ELSE @[p]]]

\* fillText at (x, y): the glyph box hangs from the current baseline
FillText(st, name, i, x, y, tw) ==
  LET size == Q(st.ctx.font)
      top  == IF st.ctx.textBaseline = "middle"
                THEN QSub(y, QDiv(size, Q(2)))
                ELSE QSub(y, size)
      box  == [op |-> name, i |-> i, x |-> x, y |-> top, w |-> Q(tw), h |-> size]
      done == Paint(st, box,
                    IF Translucent(st.ctx.fillStyle) THEN "translucent"
                    ELSE "opaque")
  IN [done EXCEPT !.ops = Append(st.ops, Op(name, i, x, y, Q(tw), size))]

\* line 171: drawImage(sourceCanvas, 0, 0)
drawSource(st, in) ==
  Paint(st, Op("source", 0, Q(0), Q(0), Q(in.sW), Q(in.sH)), in.srcAlpha)

\* bar thickness with a percentage always taken of the width
barThicknessByWidth(bar, W, H) ==
  IF bar.thicknessUnit = "%"
    THEN QDiv(Q(W * bar.thickness), Q(100))
    ELSE Q(bar.thickness)

\* lines 205-214
barThickness(bar, W, H) ==
  IF bar.thicknessUnit = "%"
    THEN IF bar.position = "top" \/ bar.position = "bottom"
           THEN QDiv(Q(H * bar.thickness), Q(100))
           ELSE QDiv(Q(W * bar.thickness), Q(100))
    ELSE Q(bar.thickness)

\* lines 193-253, one iteration of the loop
drawBar(st, bar, i) ==
  LET W == st.ctx.W
      H == st.ctx.H
      t == barThickness(bar, W, H)
      s1 == [st EXCEPT !.ctx.fillStyle = bar.color]
      s2 == IF bar.position = "top"
              THEN Paint(s1, Op("bar", i, Q(0), Q(0), Q(W), t), "opaque")
            ELSE IF bar.position = "bottom"
              THEN Paint(s1, Op("bar", i, Q(0), QSub(Q(H), t), Q(W), t), "opaque")
            ELSE s1
      textPadding == Default(bar.textPadding, 10)
      textAlign == Default(bar.textAlign, "center")
      s3 == [s2 EXCEPT !.ctx.fillStyle = Default(bar.textColor, "#ffffff"),
                       !.ctx.font = Default(bar.textSize, 16),
                       !.ctx.textBaseline = "middle"]
      textY == IF bar.position = "top"
                 THEN QDiv(t, Q(2))
                 ELSE QSub(Q(H), QDiv(t, Q(2)))
      textX == CASE textAlign = "left" -> Q(textPadding)
                 [] textAlign = "right" -> Q(W - bar.tw - textPadding)
                 [] OTHER -> QDiv(Q(W - bar.tw), Q(2))
  IN IF bar.text THEN FillText(s3, "barText", i, textX, textY, bar.tw) ELSE s2

RECURSIVE drawBarsFrom(_, _, _)
drawBarsFrom(st, bars, i) ==
  IF i > Len(bars) THEN st
  ELSE drawBarsFrom(drawBar(st, bars[i], i), bars, i + 1)

drawWatermarkBars(st, bars) == drawBarsFrom(st, bars, 1)

padding == 10

\* text position with the measured width left out on the right-hand corners
textPositionNoWidth(position, fontSize, tw, W, H) ==
  IF position.def /\ position.name = "xy"
    THEN <<position.x, position.y>>
    ELSE CASE position.name = "top-left" -> <<padding, padding + fontSize>>
           [] position.name = "top-right" -> <<W - padding, padding + fontSize>>
           [] position.name = "bottom-left" -> <<padding, H - padding>>
           [] OTHER -> <<W - padding, H - padding>>

\* lines 269-299
textPosition(position, fontSize, tw, W, H) ==
  IF position.def /\ position.name = "xy"
    THEN <<position.x, position.y>>
    ELSE CASE position.name = "top-left" -> <<padding, padding + fontSize>>
           [] position.name = "top-right" ->
                <<W - tw - padding, padding + fontSize>>
           [] position.name = "bottom-left" -> <<padding, H - padding>>
           [] OTHER -> <<W - tw - padding, H - padding>>

\* lines 256-302
drawTextWatermark(st, in) ==
  LET fontSize == Default(in.fontSize, 16)
      s1 == [st EXCEPT !.ctx.font = fontSize,
                       !.ctx.fillStyle = Default(in.color, DefaultTextColor)]
      xy == textPosition(in.position, fontSize, in.tw, st.ctx.W, st.ctx.H)
  IN FillText(s1, "text", 0, Q(xy[1]), Q(xy[2]), in.tw)

\* lines 314-329
imageDrawSize(nW, nH, imageWidth, imageHeight) ==
  IF Truthy(imageWidth) /\ Truthy(imageHeight)
    THEN <<Q(imageWidth.v), Q(imageHeight.v)>>
  ELSE IF Truthy(imageWidth)
    THEN <<Q(imageWidth.v), QMul(Q(imageWidth.v), QDiv(Q(nH), Q(nW)))>>
  ELSE IF Truthy(imageHeight)
    THEN <<QMul(Q(imageHeight.v), QDiv(Q(nW), Q(nH))), Q(imageHeight.v)>>
  ELSE <<Q(nW), Q(nH)>>

\* lines 331-360
imagePosition(position, dw, dh, W, H) ==
  IF position.def /\ position.name = "xy"
    THEN <<Q(position.x), Q(position.y)>>
    ELSE CASE position.name = "top-left" -> <<Q(padding), Q(padding)>>
           [] position.name = "top-right" ->
                <<QSub(QSub(Q(W), dw), Q(padding)), Q(padding)>>
           [] position.name = "bottom-left" ->
                <<Q(padding), QSub(QSub(Q(H), dh), Q(padding))>>
           [] OTHER ->
                <<QSub(QSub(Q(W), dw), Q(padding)),
                  QSub(QSub(Q(H), dh), Q(padding))>>

\* lines 304-372; save/restore leave globalAlpha as it was
drawImageWatermark(st, in) ==
  LET imageOpacity == Default(in.imageOpacity, Q(1))
      d  == imageDrawSize(in.nW, in.nH, in.imageWidth, in.imageHeight)
      xy == imagePosition(in.imagePosition, d[1], d[2], st.ctx.W, st.ctx.H)
  IN Paint(st, Op("image", 0, xy[1], xy[2], d[1], d[2]),
           IF QLt(imageOpacity, Q(1)) THEN "translucent" ELSE "opaque")

\* a pass that draws the text watermark before the bars
drawWatermarkOpsTextFirst(in, ctx, target) ==
  LET s0 == drawSource([ctx |-> ctx, ops |-> <<>>, target |-> target], in)
      s1 == IF in.text THEN drawTextWatermark(s0, in) ELSE s0
      s2 == IF Len(in.bars) > 0 THEN drawWatermarkBars(s1, in.bars) ELSE s1
  IN IF in.image /\ in.loaded THEN drawImageWatermark(s2, in) ELSE s2

\* lines 164-187: one pass on the target as the previous pass left it
drawWatermarkOps(in, ctx, target) ==
  LET s0 == drawSource([ctx |-> ctx, ops |-> <<>>, target |-> target], in)
      s1 == IF Len(in.bars) > 0 THEN drawWatermarkBars(s0, in.bars) ELSE s0
      s2 == IF in.text THEN drawTextWatermark(s1, in) ELSE s1
  IN IF in.image /\ in.loaded THEN drawImageWatermark(s2, in) ELSE s2

\* ------------------------------------------------------------ inputs
SourceSizes == {<<40, 30>>, <<200, 1000>>}

BaseIn ==
  [bars |-> <<>>, text |-> FALSE, position |-> PosUndef, fontSize |-> None,
   color |-> NoneS, tw |-> 8, image |-> FALSE, loaded |-> FALSE,
   nW |-> 8, nH |-> 6, imagePosition |-> PosUndef, imageWidth |-> None,
   imageHeight |-> None, imageOpacity |-> NoneQ, external |-> FALSE,
   sW |-> 40, sH |-> 30, srcAlpha |-> "opaque"]

BarSet ==
  {[position |-> pos, thickness |-> tu[1], thicknessUnit |-> tu[2],
    color |-> "#000000", text |-> ta[1], textColor |-> NoneS,
    textAlign |-> ta[2], textSize |-> None, textPadding |-> None, tw |-> 8] :
     pos \in {"top", "bottom"},
     tu \in {<<10, "%">>, <<5, "px">>},
     ta \in {<<FALSE, NoneS>>, <<TRUE, NoneS>>, <<TRUE, Some("left")>>,
             <<TRUE, Some("right")>>, <<TRUE, Some("center")>>}}

BarSeqs == {<<>>} \cup {<<b>> : b \in BarSet} \cup {<<a, b>> : a, b \in BarSet}

BarCases ==
  {[BaseIn EXCEPT !.bars = bs, !.sW = sz[1], !.sH = sz[2]] :
     bs \in BarSeqs, sz \in SourceSizes}

TextCases ==
  {[BaseIn EXCEPT !.text = TRUE, !.position = pos, !.fontSize = fs,
                  !.color = col, !.tw = w, !.srcAlpha = a, !.external = e] :
     pos \in Positions, fs \in {None, Some(12)},
     col \in {NoneS, Some("#ff0000")}, w \in {8, 15},
     a \in {"opaque", "transparent"}, e \in BOOLEAN}

ImageCases ==
  {[BaseIn EXCEPT !.image = TRUE, !.loaded = ld, !.nW = n[1], !.nH = n[2],
                  !.imagePosition = pos, !.imageWidth = iw,
                  !.imageHeight = ih, !.imageOpacity = op, !.srcAlpha = a] :
     ld \in BOOLEAN, n \in {<<8, 6>>, <<200, 100>>}, pos \in Positions,
     iw \in {None, Some(0), Some(4), Some(100)},
     ih \in {None, Some(0), Some(50)},
     op \in {NoneQ, Some(<<1, 2>>)}, a \in {"opaque", "transparent"}}

MixedCases ==
  {[BaseIn EXCEPT !.bars = bs, !.text = TRUE, !.position = pos,
                  !.image = TRUE, !.loaded = TRUE, !.srcAlpha = a,
                  !.external = e] :
     bs \in {s \in BarSeqs : Len(s) > 0 /\ s[1].textAlign = NoneS
                               /\ (Len(s) = 2 => s[2].textAlign = NoneS)},
     pos \in {PosUndef, Corner("top-left")},
     a \in {"opaque", "transparent"}, e \in BOOLEAN}

\* bars whose position is neither 'top' nor 'bottom': the constructor
\* (71-90) accepts whatever object it is given
InvalidBars ==
  {[position |-> "left", thickness |-> 10, thicknessUnit |-> u,
    color |-> "#000000", text |-> t, textColor |-> NoneS,
    textAlign |-> NoneS, textSize |-> None, textPadding |-> None, tw |-> 8] :
     u \in {"%", "px"}, t \in BOOLEAN}

InvalidBarCases ==
  {[BaseIn EXCEPT !.bars = bs] :
     bs \in {<<b>> : b \in InvalidBars}
            \cup {<<a, b>> : a \in InvalidBars,
                            b \in {c \in BarSet : c.textAlign = NoneS}}}

DrawInputs ==
  BarCases \cup TextCases \cup ImageCases \cup MixedCases \cup InvalidBarCases

\* setupWatermark: the target takes the source's size
DrawInit ==
  /\ NewRecorder(PlainOptions)
  /\ DefaultEnv
  /\ NewConverter
  /\ NoPage
  /\ dIn \in DrawInputs
  /\ dCtx = NewCtx(dIn.sW, dIn.sH, 0)
  /\ dTarget = Clear(dIn.sW, dIn.sH)
  /\ dOps = <<>>
  /\ dPasses = 0

\* one drawWatermark call (start() and every animation frame)
Composite ==
  /\ dPasses < MaxPasses
  /\ LET st == drawWatermarkOps(dIn, dCtx, dTarget) IN
     /\ dOps' = st.ops
     /\ dTarget' = st.target
     /\ dCtx' = st.ctx
  /\ dPasses' = dPasses + 1
  /\ UNCHANGED dIn
  /\ UNCHANGED <<recVars, convVars, demoVars>>

ResizeTo == {<<60, 40>>}

\* updateCanvasSize (498-509): setting width/height clears a canvas and
\* resets its context; an external source canvas is left alone
UpdateCanvasSize(w, h) ==
  /\ dCtx.resizes < MaxResizes
  /\ dCtx' = NewCtx(w, h, dCtx.resizes + 1)
  /\ dTarget' = Clear(w, h)
  /\ dIn' = IF dIn.external THEN dIn
            ELSE [dIn EXCEPT !.sW = w, !.sH = h, !.srcAlpha = "transparent"]
  /\ dOps' = <<>>
  /\ dPasses' = 0
  /\ UNCHANGED <<recVars, convVars, demoVars>>

NextDraw ==
  \/ Composite
  \/ \E sz \in ResizeTo : UpdateCanvasSize(sz[1], sz[2])

SpecDraw == DrawInit /\ [][NextDraw]_vars

\* ================================================== the demo page
\* src/unnamed/part_001, lines 367-575: startRecording, stopRecording,
\* convertToMP4, updateTimer.  page.now is Date.now() in steps of 500 ms.  A
\* click handler, an interval callback, the continuation of an await and a
\* progress callback each run to completion.  A disabled button receives no
\* click; a hidden one cannot be clicked.

QMin(a, b) == IF QLe(a, b) THEN a ELSE b
QMax(a, b) == IF QLe(a, b) THEN b ELSE a

\* the page after DOMContentLoaded (577-600): updateUI(false)
NewPage ==
  [now |-> 0, isRecording |-> FALSE, totalSeconds |-> 0, intervals |-> {},
   startBtn |-> TRUE, stopBtn |-> FALSE, convertBtn |-> FALSE,
   rec |-> "none", recStart |-> 0, lastDuration |-> 0, converting |-> 0,
   cb |-> [ran |-> FALSE, total |-> 0, duration |-> 0, pct |-> Q(0)]]

InitDemo ==
  /\ NewRecorder(PlainOptions)
  /\ DefaultEnv
  /\ NewConverter
  /\ NoDrawing
  /\ page = NewPage

\* updateTimer(time, seconds) with seconds given (566-575)
updateTimer(p, seconds) == [p EXCEPT !.totalSeconds = seconds]

\* updateUI(recording) (533-557)
updateUI(p, recording) ==
  [p EXCEPT !.startBtn = ~recording, !.stopBtn = recording]

\* startRecording (367-408); o is the outcome of recorder.start()
startRecording(o) ==
  /\ page.startBtn
  /\ LET p0 == updateTimer([page EXCEPT !.convertBtn = FALSE], 0) IN
     page' = IF o = "ok"
               THEN [updateUI([p0 EXCEPT !.isRecording = TRUE], TRUE)
                       EXCEPT !.rec = "recording", !.recStart = page.now,
                              !.intervals = @ \cup {page.now}]
               ELSE p0
  /\ UNCHANGED <<recVars, convVars, drawVars>>

\* the interval callback of one recording (393-402), started at time st
timerInterval(st) ==
  /\ st \in page.intervals
  /\ page' = IF ~page.isRecording
               THEN [page EXCEPT !.intervals = @ \ {st}]
               ELSE updateTimer(page, ((page.now - st) * 500) \div 1000)
  /\ UNCHANGED <<recVars, convVars, drawVars>>

\* stopRecording up to its await (410-413): recorder.stop() is called; a
\* second click while the first promise is pending replaces onstop
stopRecording ==
  /\ page.stopBtn
  /\ page.rec \in {"recording", "stopping"}
  /\ page' = [page EXCEPT !.rec = "stopping"]
  /\ UNCHANGED <<recVars, convVars, drawVars>>

\* the recorder's onstop resolves the promise with duration = Date.now() -
\* startTime, and stopRecording continues (414-450), finally block included
stopResolved ==
  /\ page.rec = "stopping"
  /\ LET duration == (page.now - page.recStart) * 500
         durationSeconds == duration \div 1000
         p1 == updateUI([page EXCEPT !.isRecording = FALSE], FALSE)
         p2 == [p1 EXCEPT !.totalSeconds = durationSeconds,
                          !.convertBtn = TRUE,
                          !.rec = "none",
                          !.lastDuration = durationSeconds] IN
     page' = updateTimer(p2, 0)
  /\ UNCHANGED <<recVars, convVars, drawVars>>

\* a click on one of the two convert buttons (431-432, 453-473)
convertClick ==
  /\ page.convertBtn
  /\ page.converting < MaxConv
  /\ page' = [page EXCEPT !.converting = @ + 1]
  /\ UNCHANGED <<recVars, convVars, drawVars>>

\* what VideoConverter.convertToMP4 hands to onProgress for a 'progress'
\* message (VideoConverter.ts 63-66)
conversionProgress(msg) == [progress |-> msg.progress, message |-> msg.message]

\* a property of an object, undefined when the object has none
Prop(obj, name) == IF name \in DOMAIN obj THEN obj[name] ELSE "undefined"

\* the percentage of the progress callback (476-487); arithmetic on
\* undefined gives NaN, and Math.min/Math.max of NaN is NaN
progressValue(elapsedTime, total) ==
  IF elapsedTime = "undefined" THEN "NaN"
  ELSE IF total > 0
    THEN QMin(Q(100), QMax(Q(0), QMul(QDiv(Q(elapsedTime), Q(total)), Q(100))))
    ELSE QMin(Q(95), Q(elapsedTime * 10))

\* the worker posts {type: 'progress', time, message} (part_002 190-198)
\* and the callback of a conversion in flight runs (473-491)
progressCallback(time) ==
  /\ page.converting > 0
  /\ LET progress == conversionProgress([type |-> "progress", time |-> time,
                                         progress |-> "undefined",
                                         message |-> "Converting..."])
         elapsedTime == Prop(progress, "time") IN
     page' = [page EXCEPT !.cb = [ran |-> TRUE,
                                  total |-> page.totalSeconds,
                                  duration |-> page.lastDuration,
                                  pct |-> progressValue(elapsedTime,
                                                        page.totalSeconds)]]
  /\ UNCHANGED <<recVars, convVars, drawVars>>

\* converter.convertToMP4 settles (493-515)
convertSettled ==
  /\ page.converting > 0
  /\ page' = [page EXCEPT !.converting = @ - 1]
  /\ UNCHANGED <<recVars, convVars, drawVars>>

\* 500 ms pass
PageClock ==
  /\ page.now < MaxTime
  /\ page' = [page EXCEPT !.now = @ + 1]
  /\ UNCHANGED <<recVars, convVars, drawVars>>

NextDemo ==
  \/ \E o \in {"ok", "throws"} : startRecording(o)
  \/ \E st \in 0..MaxTime : timerInterval(st)
  \/ stopRecording
  \/ stopResolved
  \/ convertClick
  \/ \E time \in 0..MaxTime : progressCallback(time)
  \/ convertSettled
  \/ PageClock

SpecDemo == InitDemo /\ [][NextDemo]_vars

\* ------------------------------------------------------------ type and set-up
TypeOK ==
  /\ cfg \in WatermarkOptions
  /\ mediaRecorder \in 0..MaxRec
  /\ animationFrameId \in 0..MaxRaf
  /\ Len(recordedChunks) <= MaxChunks
  /\ Len(promises) <= MaxStops
  /\ startTime <= clock

\* the constructor has allocated the watermark canvas whenever a watermark is
\* configured, so the guard on line 379 of start() is never true
SetupDoneAtConstruction == cfg.wm => watermarkCanvas.alloc

\* ================================================================== claims
Recorders == 1..MaxRec
Calls == 1..Len(promises)

\* C1: a stop() on a session with no prior successful start() rejects with
\* 'No active recording' and changes neither the session's fields nor the
\* recorder and stream objects, also after a start() that failed part-way.
C1_StopWithoutStartRejects ==
  [][(Len(promises') = Len(promises) + 1 /\ phase = "fresh")
       => /\ promises'[Len(promises')].state = "rejected"
          /\ promises'[Len(promises')].err = "NoActiveRecording"
          /\ UNCHANGED <<sessionVars, recs>>]_vars

\* C2: in every reachable state at most one recorder opened by the session
\* is recording, whatever sequence of start() calls was made.
C2_SingleActiveRecorder ==
  Cardinality({r \in Recorders : recs[r].state = "recording"}) <= 1

\* C3: a stop() made after an earlier stop() has resolved, with no start()
\* in between, is rejected with the error of a never-started session.
C3_StopAfterStopRejects ==
  \A p \in Calls :
    promises[p].phase = "stopped"
      => promises[p].state = "rejected"
         /\ promises[p].err = "NoActiveRecording"

\* C4: once stop() has resolved the session holds neither the compositing
\* target nor the recorder, every track is stopped, and no track is stopped
\* while the recorder's stop event is still to come.
C4_ReleasedWhenStopResolves ==
  /\ phase = "stopped"
       => /\ mediaRecorder = NULL
          /\ ~watermarkCanvas.alloc
          /\ \A r \in Recorders : recs[r].tracks # "live"
  /\ \A r \in Recorders : recs[r].stopQueued => recs[r].tracks = "live"

Artifacts(r) ==
  Cardinality({p \in Calls :
                 promises[p].state = "resolved" /\ promises[p].rec = r})

\* C6: each recorder (one per start/stop cycle) yields at most one resolved
\* stop() promise, and exactly one once its stop event has fired.
C6_OneArtifactPerCycle ==
  \A r \in Recorders :
    /\ Artifacts(r) <= 1
    /\ recs[r].finalized => Artifacts(r) = 1

\* C6 witness: stop() was called twice on the same recorder and its stop
\* event has fired.
C6_Witness ==
  \E r \in Recorders :
    /\ recs[r].finalized
    /\ Cardinality({p \in Calls : promises[p].rec = r}) >= 2

IsPrefix(s, t) ==
  Len(s) <= Len(t) /\ \A i \in 1..Len(s) : s[i] = t[i]

\* C7: while the session is recording every step leaves the chunks already
\* accumulated in place: the old sequence is a prefix of the new one.
C7_ChunksAppendOnly ==
  [][isRecording => IsPrefix(recordedChunks, recordedChunks')]_vars

\* C8: while the image load started for the session is pending (the image is
\* still loading and the load's promise is unsettled) no stream has been
\* captured and no composite pass has run.
C8_StartWaitsForImage ==
  (imgState = "loading" /\ loadState = "pending")
    => (nRec = 0 /\ wmContent = <<>>)

\* C9: once start() has been called on a session whose watermark image has
\* failed, the load has settled with no image available, a stream has been
\* captured, and the compositing target holds the source, bar and text
\* layers and no image layer.
C9_FailedImageSettles ==
  (imgState = "broken" /\ phase # "fresh")
    => /\ loadState = "resolved"
       /\ ~watermarkImageLoaded
       /\ nRec > 0
       /\ wmContent = <<"source">> \o BarLayers(cfg.bars)
                      \o (IF cfg.text THEN <<"text">> ELSE <<>>)

\* C10: in a session that has been started and whose watermark image has
\* failed, exactly one warning has been logged, whatever the source variant.
C10_WarnsOncePerFailure ==
  (imgState = "broken" /\ phase # "fresh") => warnings = 1

\* C11: a start() that captured a stream but failed to create or start the
\* recorder leaves chunk sequence, start timestamp and recorder handle as
\* they were, leaves no track of the new stream live and holds no
\* compositing target.
C11_FailedStartLeavesNothing ==
  [][(nRec' = nRec + 1 /\ recs'[nRec'].state # "recording")
       => /\ recordedChunks' = recordedChunks
          /\ startTime' = startTime
          /\ mediaRecorder' = mediaRecorder
          /\ recs'[nRec'].tracks # "live"
          /\ ~watermarkCanvas'.alloc]_vars

\* C15: isRecording() is true exactly when the session is Recording, that
\* is from a successful start() until the next stop() call.
C15_IsRecordingIffRecording ==
  isRecording <=> phase = "recording"

\* ------------------------------------------------------ VideoConverter claims
ConvCalls == 1..Len(calls)

LiveWorkers == (1..nWorkers) \ terminated

\* C12: the client holds at most one live Worker: none exists before the
\* first load/convert call, the only live Worker is the one this.worker
\* refers to, this.worker never refers to a terminated Worker, and every call
\* posted to and listened on a Worker that was live at the call.
C12_SingleLiveWorker ==
  /\ Cardinality(LiveWorkers) <= 1
  /\ calls = <<>> => nWorkers = 0
  /\ LiveWorkers \subseteq {worker}
  /\ worker # NULL => worker \in LiveWorkers
  /\ \A c \in ConvCalls : calls[c].liveAtPost
  /\ \A c, d \in ConvCalls :
       (c < d /\ calls[c].worker # calls[d].worker)
         => calls[c].worker \in terminated

\* two calls shared one Worker, it was terminated, and a later call runs on
\* a fresh one
C12_Witness ==
  \E c, d, e \in ConvCalls :
    /\ c < d /\ d < e
    /\ calls[c].worker = calls[d].worker
    /\ calls[d].worker \in terminated
    /\ calls[e].worker = worker
    /\ worker \notin terminated

\* C13: every load/convert call has resolve or reject invoked at most once,
\* and a listener is registered only for a call that is still pending, so
\* once every call has settled no listener is left, also when a load and a
\* convert overlapped.
C13_SettleOnceNoLeak ==
  /\ \A c \in ConvCalls : calls[c].settles <= 1
  /\ listeners \subseteq
       {<<calls[c].worker, c>> : c \in {d \in ConvCalls : calls[d].state = "pending"}}
  /\ (\A c \in ConvCalls : calls[c].state # "pending") => listeners = {}

\* a convert was called while a load was pending, both have settled and no
\* listener is left
C13_Witness ==
  /\ listeners = {}
  /\ \E c, d \in ConvCalls :
       /\ calls[c].kind = "load" /\ calls[d].kind = "convert"
       /\ c \in calls[d].pendingAtCall
       /\ calls[c].state # "pending" /\ calls[d].state # "pending"

\* C14: a call is rejected only by the error message of its own request; an
\* error posted for another request leaves it pending.
C14_ErrorRejectsOwnCallOnly ==
  \A c \in ConvCalls : calls[c].state = "rejected" => calls[c].by = c

\* ---------------------------------------------------------- drawing claims
\* C16: a composite pass that follows another one with the source and the
\* options unchanged leaves the target as the first pass left it.
C16_CompositeIdempotent ==
  [][(dPasses >= 1 /\ dPasses' = dPasses + 1 /\ dIn' = dIn)
       => dTarget' = dTarget]_vars

OpIdx == 1..Len(dOps)

OpsOf(name) == {j \in OpIdx : dOps[j].op = name}

Rank(o) ==
  CASE o.op = "source" -> 0
    [] o.op \in {"bar", "barText"} -> 1
    [] o.op = "text" -> 2
    [] OTHER -> 3

\* C17: a pass starts with the source copy, then draws every bar, each one
\* followed by its own text, in array order, then the text watermark if one
\* is set, then the image watermark if one is loaded; nothing is drawn out
\* of that order.
C17_DrawOrder ==
  dPasses >= 1 =>
    /\ OpsOf("source") = {1}
    /\ \A j, k \in OpIdx : j < k => Rank(dOps[j]) <= Rank(dOps[k])
    /\ \A j, k \in OpsOf("bar") \cup OpsOf("barText") :
         j < k => /\ dOps[j].i <= dOps[k].i
                  /\ dOps[j].i = dOps[k].i
                       => (dOps[j].op = "bar" /\ dOps[k].op = "barText")
    /\ \A i \in 1..Len(dIn.bars) :
         /\ Cardinality({j \in OpsOf("bar") : dOps[j].i = i})
              = IF dIn.bars[i].position \in {"top", "bottom"} THEN 1 ELSE 0
         /\ Cardinality({j \in OpsOf("barText") : dOps[j].i = i})
              = IF dIn.bars[i].text THEN 1 ELSE 0
    /\ Cardinality(OpsOf("text")) = IF dIn.text THEN 1 ELSE 0
    /\ Cardinality(OpsOf("image")) = IF dIn.image /\ dIn.loaded THEN 1 ELSE 0

\* a pass that drew two bars with their texts, the text and the image
C17_Witness ==
  /\ dPasses >= 1
  /\ Cardinality(OpsOf("barText")) = 2
  /\ OpsOf("text") # {}
  /\ OpsOf("image") # {}

\* C18: the text watermark is drawn at (10, 10 + fontSize) for top-left,
\* (W - textWidth - 10, 10 + fontSize) for top-right, (10, H - 10) for
\* bottom-left and (W - textWidth - 10, H - 10) for bottom-right, W and H
\* being the target's size at the pass, and at the given pair for a pixel
\* position.
C18_TextCorners ==
  (dPasses >= 1 /\ dIn.text /\ dIn.position.def) =>
    \A j \in OpsOf("text") :
      LET o  == dOps[j]
          fs == IF dIn.fontSize.def THEN dIn.fontSize.v ELSE 16
          W  == dCtx.W
          H  == dCtx.H
          at(x, y) == QEq(o.x, Q(x)) /\ QEq(o.y, Q(y))
      IN CASE dIn.position.name = "top-left" -> at(10, 10 + fs)
           [] dIn.position.name = "top-right" -> at(W - dIn.tw - 10, 10 + fs)
           [] dIn.position.name = "bottom-left" -> at(10, H - 10)
           [] dIn.position.name = "bottom-right" -> at(W - dIn.tw - 10, H - 10)
           [] dIn.position.name = "xy" -> at(dIn.position.x, dIn.position.y)

\* a text drawn at the bottom-right corner of a target that was resized and
\* is larger than its external source
C18_Witness ==
  /\ dPasses >= 1
  /\ dCtx.resizes >= 1
  /\ dIn.external
  /\ dIn.position.name = "bottom-right"
  /\ \E j \in OpsOf("text") : QEq(dOps[j].x, Q(60 - dIn.tw - 10))

\* C19: a bar is a rectangle across the full target width whose thickness is
\* thickness/100 of the target height for unit '%' and the thickness itself
\* for unit 'px', with its top edge at y = 0 for 'top' and at
\* y = height - thickness for 'bottom'.
C19_BarGeometry ==
  dPasses >= 1 =>
    \A j \in OpsOf("bar") :
      LET o   == dOps[j]
          bar == dIn.bars[o.i]
          t   == IF bar.thicknessUnit = "%"
                   THEN QMul(<<bar.thickness, 100>>, Q(dCtx.H))
                   ELSE Q(bar.thickness)
      IN /\ QEq(o.h, t)
         /\ QEq(o.x, Q(0))
         /\ QEq(o.w, Q(dCtx.W))
         /\ bar.position = "top" => QEq(o.y, Q(0))
         /\ bar.position = "bottom" => QEq(o.y, QSub(Q(dCtx.H), t))

\* a 10% bar at the bottom of a 1000px-tall target: 100px thick, at y = 900
C19_Witness ==
  /\ dCtx.H = 1000
  /\ \E j \in OpsOf("bar") :
       /\ dIn.bars[dOps[j].i].thicknessUnit = "%"
       /\ dIn.bars[dOps[j].i].thickness = 10
       /\ QEq(dOps[j].h, Q(100))
       /\ QEq(dOps[j].y, Q(900))

\* C20: the image watermark is drawn imageWidth x imageHeight when both are
\* given, with the other side scaled by the bitmap's aspect ratio when only
\* one is given, and at the bitmap's natural size when neither is given,
\* for every number given, 0 included.
C20_ImageDrawSize ==
  dPasses >= 1 =>
    \A j \in OpsOf("image") :
      LET o  == dOps[j]
          iw == dIn.imageWidth
          ih == dIn.imageHeight
          is(w, h) == QEq(o.w, w) /\ QEq(o.h, h)
      IN CASE iw.def /\ ih.def -> is(Q(iw.v), Q(ih.v))
           [] iw.def /\ ~ih.def -> is(Q(iw.v), <<iw.v * dIn.nH, dIn.nW>>)
           [] ~iw.def /\ ih.def -> is(<<ih.v * dIn.nW, dIn.nH>>, Q(ih.v))
           [] OTHER -> is(Q(dIn.nW), Q(dIn.nH))

\* ------------------------------------------------------- start() claims
\* C21: a successful start() on a session with a watermark records from a
\* target that has the size the source canvas has at that start(), also when
\* the page resized the source after construction.
C21_TargetSizedAtStart ==
  [][(/\ nRec' = nRec + 1
      /\ recs'[nRec'].state = "recording"
      /\ recs'[nRec'].target = "wm"
      /\ srcCanvas.updates = 0)
       => /\ watermarkCanvas'.w = srcCanvas.w
          /\ watermarkCanvas'.h = srcCanvas.h]_vars

\* C23: every start() that captures a stream captures it from the watermark
\* canvas exactly when a watermark was given and from the source canvas
\* otherwise, and a successful start() schedules a loop tick exactly when a
\* watermark was given.
C23_TargetAndLoopIffWatermark ==
  [][nRec' = nRec + 1
       => /\ recs'[nRec'].target = "wm" <=> cfg.wm
          /\ recs'[nRec'].target = "src" <=> ~cfg.wm
          /\ recs'[nRec'].state = "recording"
               => ((rafPending' \ rafPending # {}) <=> cfg.wm)]_vars

\* a recording from the watermark canvas with its loop tick scheduled
C23_Witness ==
  /\ isRecording
  /\ recs[mediaRecorder].target = "wm"
  /\ animationFrameId \in rafPending

\* C24: the type every start() passes to the recorder is reported supported
\* by the browser, and no entry before it in the preference list is.
C24_FirstSupportedType ==
  \A r \in 1..nRec :
    /\ recs[r].mimeType \in supported
    /\ \A i, j \in 1..Len(MimeList) :
         (MimeList[i] = recs[r].mimeType /\ j < i) => MimeList[j] \notin supported

Layers(frame) == {frame[i] : i \in 1..Len(frame)}

\* C22: a stream captured from the watermark canvas finds one composite pass
\* already drawn on it, and when the configured image is one that loads,
\* that pass contains the image.
C22_FirstPassBeforeCapture ==
  \A r \in 1..nRec :
    recs[r].target = "wm" =>
      /\ recs[r].frame # <<>>
      /\ recs[r].frame[1] = "source"
      /\ imgState = "ok" => "image" \in Layers(recs[r].frame)

\* C29: with a canvas as image source the bitmap is available as soon as the
\* load has returned, so the pass start() makes before capturing draws it.
C29_CanvasSnapshotSync ==
  (cfg.image = "canvas" /\ nRec >= 1) =>
    /\ loadState = "resolved" => watermarkImageLoaded
    /\ \A r \in 1..nRec : "image" \in Layers(recs[r].frame)

\* C25: once stop() has been invoked on a recording session, and until a
\* start() succeeds again, no loop tick composites and no loop tick schedules
\* another tick.
C25_NoPassAfterStop ==
  [][(phase = "stopping" \/ phase = "stopped")
       => /\ lastPass' # lastPass => lastPass'.by = "start"
          /\ nRec' = nRec => rafPending' \subseteq rafPending
          /\ nRec' = nRec => wmContent' = wmContent]_vars

\* a session whose loop composited while recording and has ended with stop()
C25_Witness ==
  /\ phase = "stopped"
  /\ lastPass = [by |-> "tick", phase |-> "recording"]
  /\ rafPending = {}
  /\ \E p \in 1..Len(promises) : promises[p].state = "resolved"

\* C26: an updateCanvasSize(width, height) call sets the watermark canvas,
\* if there is one, to width x height, resizes the source canvas only when
\* it was given as options.canvas, makes no composite pass, and leaves the
\* recorder, the chunks, the start time, the loop and the stop() promises
\* as they are, whatever state the session is in.
C26_UpdateCanvasSizeFrame ==
  [][srcCanvas'.updates = srcCanvas.updates + 1
       => /\ watermarkCanvas.alloc
               => watermarkCanvas' = [alloc |-> TRUE, w |-> srcCanvas'.req[1],
                                      h |-> srcCanvas'.req[2]]
          /\ ~watermarkCanvas.alloc => watermarkCanvas' = watermarkCanvas
          /\ srcCanvas.owned
               => <<srcCanvas'.w, srcCanvas'.h>> = srcCanvas'.req
          /\ ~srcCanvas.owned
               => <<srcCanvas'.w, srcCanvas'.h>> = <<srcCanvas.w, srcCanvas.h>>
          /\ lastPass' = lastPass
          /\ UNCHANGED <<mediaRecorder, recordedChunks, startTime,
                         animationFrameId, recs, nRec, rafPending, nextRaf,
                         promises, phase>>]_vars

\* updateCanvasSize was called on a recording session with an external
\* source: the watermark canvas has the new size, the source has not
C26_Witness ==
  /\ isRecording
  /\ srcCanvas.updates >= 1
  /\ ~srcCanvas.owned
  /\ watermarkCanvas.alloc
  /\ <<watermarkCanvas.w, watermarkCanvas.h>> = srcCanvas.req
  /\ <<srcCanvas.w, srcCanvas.h>> # srcCanvas.req

\* C27: no composite pass runs on a configuration that has a bar whose
\* position is neither 'top' nor 'bottom'.
C27_InvalidEdgeRejected ==
  dPasses >= 1 =>
    \A i \in 1..Len(dIn.bars) : dIn.bars[i].position \in {"top", "bottom"}

\* C28: when a stop() promise resolves, its duration is the time of the
\* finalization minus the time at which the finalized recorder's own start()
\* began, it is not negative, and its blob is not empty if that recorder
\* delivered a non-empty chunk.
C28_DurationOfOwnCycle ==
  [][\A p \in 1..Len(promises) :
       (promises[p].state = "pending" /\ promises'[p].state = "resolved")
         => /\ promises'[p].duration
                 = clock - recs[promises'[p].rec].startedAt
            /\ promises'[p].duration >= 0
            /\ recs'[promises'[p].rec].gotData
                 => promises'[p].blob # <<>>]_vars

\* C30: every progress event handed to a caller's onProgress carries a
\* defined percentage, for the stage markers and for the engine's
\* elapsed-time reports alike.
C30_ProgressHasPercentage ==
  \A c \in ConvCalls : calls[c].progress # "undefined"

\* C31: whenever the progress callback of a conversion runs, the stored total
\* duration is the duration, in whole seconds, of the last stopped recording,
\* and the percentage derived is a number within [0, 100].
C31_ProgressUsesRecordingDuration ==
  page.cb.ran =>
    /\ page.cb.total = page.cb.duration
    /\ page.cb.pct # "NaN"
    /\ QLe(Q(0), page.cb.pct)
    /\ QLe(page.cb.pct, Q(100))

\* C32: at most one tick of the compositing loop is scheduled, and when one is
\* scheduled the stored handle animationFrameId is the handle of that tick.
C32_OneTickScheduled ==
  /\ Cardinality(rafPending) <= 1
  /\ rafPending # {} => rafPending = {animationFrameId}

\* C33: a promise returned by stop() while the recorder's stop event is
\* still to fire is eventually settled, also when stop() is called again
\* before the event.
AwaitsStopEvent(p) ==
  IF p <= Len(promises)
    THEN IF promises[p].state = "pending"
           THEN recs[promises[p].rec].stopQueued ELSE FALSE
    ELSE FALSE

Settled(p) ==
  IF p <= Len(promises) THEN promises[p].state # "pending" ELSE FALSE

C33_StopPromiseSettles ==
  \A p \in 1..MaxStops : [](AwaitsStopEvent(p) => <>Settled(p))

\* C34: the blob a stop() resolves with holds exactly the non-empty chunks
\* its own recorder delivered, in delivery order: as many chunks as that
\* recorder delivered, all of them its own.
C34_ArtifactOfOwnCycle ==
  \A p \in Calls :
    promises[p].state = "resolved" =>
      promises[p].blob =
        [i \in 1..recs[promises[p].rec].nData |-> promises[p].rec]

\* the same watermark with the text taken out of every bar
WithoutBarText(in) ==
  [in EXCEPT !.bars = [i \in DOMAIN in.bars |->
                         [in.bars[i] EXCEPT !.text = FALSE]]]

\* a first pass on a fresh target
FirstPass(in) ==
  drawWatermarkOps(in, NewCtx(dCtx.W, dCtx.H, 0), Clear(dCtx.W, dCtx.H))

\* C35: the text watermark is drawn with the same fillText call, font, fill
\* style and text baseline as in the same watermark without bar text.
\* Nothing after the bars sets the baseline, so the context left by the pass
\* holds the baseline the text watermark was drawn with.
C35_TextStateIndependentOfBars ==
  (dPasses > 0 /\ dIn.text) =>
    LET plain == FirstPass(WithoutBarText(dIn)) IN
    /\ \A i \in OpIdx : dOps[i].op = "text" =>
         \E j \in 1..Len(plain.ops) : plain.ops[j] = dOps[i]
    /\ dCtx.textBaseline = plain.ctx.textBaseline

\* the container of a MIME type: the type without its parameters
Container(t) ==
  CASE t = "video/webm;codecs=vp9" -> "video/webm"
    [] t = "video/webm;codecs=vp8" -> "video/webm"
    [] OTHER -> t

\* C36: the type label of the blob a stop() resolves with is the container
\* of the encoding start() selected for that recorder, whichever entry of
\* the preference list was selected.
C36_BlobTypeIsSelectedContainer ==
  \A p \in Calls :
    promises[p].state = "resolved" =>
      promises[p].type = Container(recs[promises[p].rec].mimeType)

\* call c is pending on a Worker that terminate() has been called on
CutOff(c) ==
  IF c <= Len(calls)
    THEN calls[c].state = "pending" /\ calls[c].worker \in terminated
    ELSE FALSE

\* call c is settled and its listener is no longer registered
Released(c) ==
  IF c <= Len(calls)
    THEN calls[c].state # "pending" /\ <<calls[c].worker, c>> \notin listeners
    ELSE FALSE

\* C37: a load or convert call that is in flight when terminate() is called
\* is eventually settled and its listener released.
C37_TerminateSettlesCalls ==
  \A c \in 1..MaxCalls : [](CutOff(c) => <>Released(c))

\* C38: whenever the worker posts 'loaded', and whenever a convert
\* invocation goes on to use the engine (writeFile), the engine has finished
\* loading successfully.
C38_LoadedMeansLoaded ==
  [][/\ \A i \in (Len(outbox) + 1)..Len(outbox') :
          outbox'[i].type = "loaded" => engine' = "loaded"
     /\ \A h \in handlers' \ handlers :
          h.pc = "write" => engine' = "loaded"]_vars

\* the caller serialized call c: no call was pending on c's Worker when c
\* was made, and no call was made on that Worker while c was pending
Serialized(c) ==
  /\ \A d \in calls[c].pendingAtCall : calls[d].worker # calls[c].worker
  /\ \A d \in ConvCalls :
       (d > c /\ calls[d].worker = calls[c].worker)
         => c \notin calls[d].pendingAtCall

\* the Worker has run the request of call c to its end
Handled(c) ==
  /\ calls[c].worker \notin terminated
  /\ \A i \in 1..Len(inbox) : inbox[i].call # c
  /\ \A h \in handlers : h.call # c

\* C39: the Worker posts one terminal message for a request, no second one,
\* and of the type of the request ('loaded' for load, 'complete' for
\* convert, 'error' for either); for a convert call serialized by the
\* caller no 'progress' of its request is posted after that message, and
\* the call is settled by the terminal message of its own request.
C39_OneTerminalPerRequest ==
  /\ \A c \in ConvCalls :
       /\ calls[c].terminals <= 1
       /\ Handled(c) => calls[c].terminals = 1
       /\ (calls[c].kind = "convert" /\ Serialized(c)) =>
            /\ ~calls[c].lateProgress
            /\ calls[c].state # "pending" => calls[c].by = c
  /\ \A i \in 1..Len(outbox) :
       /\ outbox[i].type = "loaded" => calls[outbox[i].call].kind = "load"
       /\ outbox[i].type = "complete" => calls[outbox[i].call].kind = "convert"

====
